---- MODULE Spec2Model ----
(***************************************************************************)
(* Model of the windows-process-bandwidth-limiter traffic shaping          *)
(* pipeline: BandwidthLimiter (src/utils/bandwidth_limiter.py),            *)
(* NetworkThrottler (src/core/throttler.py), KeyboardHandler               *)
(* (src/utils/keyboard_handler.py) and ThrottlingStatistics                *)
(* (src/utils/statistics.py).                                              *)
(*                                                                         *)
(* Time is a discrete clock.  One second (the limiter's window_size = 1.0) *)
(* is WindowTicks ticks.  Every time.time() call reads the clock in the    *)
(* step that models the line of the call, and Tick may run between any two *)
(* steps.  Token amounts are kept multiplied by WindowTicks so that        *)
(* elapsed * max_bytes_per_second stays an integer.                        *)
(***************************************************************************)
EXTENDS Integers, Sequences, FiniteSets, TLC

VARIABLES clock, config, lim, stats, throttling_enabled, shutdown_event,
          kh, target_pid, target_ports, pc, pkt, should_throttle,
          sleep_until, cap, out, obs

vars == <<clock, config, lim, stats, throttling_enabled, shutdown_event,
          kh, target_pid, target_ports, pc, pkt, should_throttle,
          sleep_until, cap, out, obs>>

(* ------------------------------ bounds --------------------------------- *)
MaxTime == 3
MaxPackets == 3
MaxPorts == 21
MaxPacketSize == 2
MaxCapturePackets == 1
MaxRate == 3
MaxLimiterTime == 5
MaxBurstPackets == 6
MaxBurstTime == 6
MaxRefund == 2
MaxToggles == 2
MaxProcs == 2
MaxNameLen == 2

(* ------------------------- program constants --------------------------- *)
WindowTicks == 2
MAX_LISTED_PORTS == 20
SimplePortLimit == 5
port_range_start == 49000
port_range_end == 65000
DropScale == 2
max_bytes_per_second == 2
status_update_interval == 2

Min(a, b) == IF a < b THEN a ELSE b

NoPacket == [id |-> 0, size |-> 0]

(* ------------------------- BandwidthLimiter ---------------------------- *)
\* BandwidthLimiter.__init__ at time now; tokens are scaled by WindowTicks.
NewLimiter(rate, now) ==
    [max_bytes_per_second |-> rate,
     bucket_size |-> rate,
     tokens |-> rate * WindowTicks,
     last_refill |-> now,
     bytes_sent |-> 0,
     window_start |-> now,
     lock |-> "free"]

\* with self._lock: the lock is a threading.Lock, which is not reentrant
Acquire(l) == [l EXCEPT !.lock = "held"]
Release(l) == [l EXCEPT !.lock = "free"]

\* _refill_tokens
RefillTokens(l, now) ==
    LET elapsed == now - l.last_refill
        tokens_to_add == elapsed * l.max_bytes_per_second
    IN  IF elapsed > 0
        THEN [l EXCEPT !.tokens = Min(l.bucket_size * WindowTicks, l.tokens + tokens_to_add),
                       !.last_refill = now]
        ELSE l

\* _reset_window_if_needed
ResetWindowIfNeeded(l, now) ==
    IF now - l.window_start >= WindowTicks
    THEN [l EXCEPT !.window_start = now, !.bytes_sent = 0]
    ELSE l

\* the test without the size of the packet
NeedsThrottleLoose(l, size) == l.bytes_sent > l.max_bytes_per_second

\* throttle, line 72: does the packet exceed the window's quota
NeedsThrottle(l, size) == l.bytes_sent + size > l.max_bytes_per_second

\* throttle, line 75
TimeRemaining(l, now) == WindowTicks - (now - l.window_start)

\* throttle, lines 82-83: the window reset after the wait
ResetAfterWait(l, now) == [l EXCEPT !.window_start = now, !.bytes_sent = 0]

\* an accounting that also takes the packet's bytes out of the bucket
AccountDrawingTokens(l, size) ==
    [l EXCEPT !.bytes_sent = l.bytes_sent + size, !.tokens = l.tokens - size * WindowTicks]

\* throttle, line 86
Account(l, size) == [l EXCEPT !.bytes_sent = l.bytes_sent + size]

(* ------------------------- capture filters ----------------------------- *)
RECURSIVE FirstK(_, _)
\* list(ports)[:k]; the set's iteration order is taken to be ascending
FirstK(S, k) ==
    IF k = 0 \/ S = {} THEN {}
    ELSE LET m == CHOOSE x \in S : \A y \in S : x <= y
         IN  {m} \cup FirstK(S \ {m}, k - 1)

PreciseFilter(ports) == [kind |-> "precise", ports |-> ports, lo |-> 0, hi |-> 0]
RangeFilter(lo, hi) == [kind |-> "range", ports |-> {}, lo |-> lo, hi |-> hi]
BasicFilter == [kind |-> "basic", ports |-> {}, lo |-> 0, hi |-> 0]

\* the limit tested with < instead of <=
FirstFilterStrict(ports) ==
    IF ports # {} /\ Cardinality(ports) < MAX_LISTED_PORTS
    THEN PreciseFilter(ports)
    ELSE RangeFilter(port_range_start, port_range_end)

\* _packet_capture_context, lines 195-211: the first filter
FirstFilter(ports) ==
    IF ports # {} /\ Cardinality(ports) <= MAX_LISTED_PORTS
    THEN PreciseFilter(ports)
    ELSE RangeFilter(port_range_start, port_range_end)

\* the simplified filter without the truncation
SimpleFilterUntruncated(ports) == PreciseFilter(ports)

\* _packet_capture_context, lines 223-229: the simplified filter
SimpleFilter(ports) == PreciseFilter(FirstK(ports, SimplePortLimit))

\* _packet_capture_context, line 220: which rung follows an exception caught at
\* line 217 (msg = "pi" stands for a message holding "parameter is incorrect")
RungAfterFailure(ports, msg) ==
    IF ports # {} /\ msg = "pi" THEN "open2" ELSE "open3"

ErrorMessages == {"pi", "other"}
OpenOutcomes == {"ok"} \cup ErrorMessages
\* the message of a failure on the later rungs is only logged
LadderOutcomes == {"ok", "other"}

(* --------------------------- ProcessManager ---------------------------- *)
\* the letters process names and the configured substring are written with
Letters == {"a", "A", "b", "B"}

\* str.lower() of a letter
Lower(c) == IF c = "A" THEN "a" ELSE IF c = "B" THEN "b" ELSE c

\* the comparison made on the names as they are
SameCase(w) == w

\* str.lower() of a string
LowerStr(w) == [i \in 1..Len(w) |-> Lower(w[i])]

\* Python's `sub in name` on strings
Contains(sub, name) ==
    \E k \in 0..(Len(name) - Len(sub)) : SubSeq(name, k + 1, k + Len(sub)) = sub

RECURSIVE FindFrom(_, _, _)
\* find_process_by_name, lines 57-68: the loop over psutil.process_iter from
\* the i-th process on; 0 stands for the RuntimeError of line 68
FindFrom(procs, sub, i) ==
    IF i > Len(procs) THEN 0
    ELSE IF Contains(LowerStr(sub), LowerStr(procs[i].name)) THEN procs[i].pid
    ELSE FindFrom(procs, sub, i + 1)

FindProcessByName(procs, sub) == FindFrom(procs, sub, 1)

\* what process.net_connections() gave: an error, or connections whose local
\* and remote port are 0 when the address is missing
ConnectionErrors == {"NoSuchProcess", "AccessDenied", "Exception"}
Failed(kind) == [error |-> kind, conns |-> {}]

\* connections that use the ports 1..n between them, as local and remote ports
Connections(n) ==
    [error |-> "none",
     conns |-> {[laddr |-> p, raddr |-> IF p + 1 <= n THEN p + 1 ELSE 0] :
                   p \in {q \in 1..n : q % 2 = 1}}]

\* the ports when the connections could be listed
PortsOf(conn) ==
    {c.laddr : c \in {d \in conn.conns : d.laddr # 0}}
        \cup {c.raddr : c \in {d \in conn.conns : d.raddr # 0}}

\* a port discovery that lets the enumeration's error through
GetProcessPortsPropagating(conn) ==
    [raised |-> conn.error # "none", ports |-> PortsOf(conn)]

\* get_process_ports: every error of the enumeration gives the empty set
GetProcessPorts(conn) ==
    [raised |-> FALSE, ports |-> IF conn.error # "none" THEN {} ELSE PortsOf(conn)]

(* ------------------------------ state ---------------------------------- *)
\* settings.py writes the substring "Your-process-here"; the model writes "ab"
NewConfig(lag, drop) ==
    [lag_delay |-> lag, packet_drop_rate |-> drop,
     status_update_interval |-> status_update_interval,
     process_name_substring |-> <<"a", "b">>]

\* the configurations explored: no loss and no delay, half loss with a delay,
\* total loss
Configs == {NewConfig(0, 0), NewConfig(1, 1), NewConfig(0, DropScale)}

InitWith(cfg, at) ==
    /\ clock = 0
    /\ config = cfg
    /\ lim = NewLimiter(max_bytes_per_second, 0)
    /\ stats = [processed_packets |-> 0, throttled_packets |-> 0, dropped_packets |-> 0]
    /\ throttling_enabled = FALSE
    /\ shutdown_event = FALSE
    /\ kh = [running |-> FALSE, thread |-> "none"]
    /\ target_pid = 0
    /\ target_ports = {}
    /\ pc = at
    /\ pkt = NoPacket
    /\ should_throttle = FALSE
    /\ sleep_until = 0
    /\ cap = [rung |-> 0, yielded |-> FALSE, open |-> {}, attempts |-> <<>>,
              err |-> "none", exc |-> "none"]
    /\ out = [sent |-> <<>>, status |-> {}, final |-> 0, troubleshooting |-> FALSE,
              raised |-> "none"]
    /\ obs = [taken |-> 0, shutdown_calls |-> 0, end_cause |-> "none", waited |-> FALSE,
              lost |-> 0, can_send |-> TRUE, sizes |-> {}, unlocked |-> {}, toggles |-> 0,
              toggled_asleep |-> FALSE,
              call |-> "none", new_rate |-> 0, asked |-> 0, adapting |-> FALSE,
              body_exc |-> "none",
              resolved |-> FALSE, procs |-> <<>>, conn_error |-> "none"]

Init == \E cfg \in Configs : InitWith(cfg, "start")

\* where run is once it has left its try block
Leaving == {"except", "shutdown", "done"}

\* time passes; it is not followed once run is on its way out
Tick(limit) ==
    /\ pc \notin Leaving
    /\ clock < limit
    /\ clock' = clock + 1
    /\ UNCHANGED <<config, lim, stats, throttling_enabled, shutdown_event, kh,
                   target_pid, target_ports, pc, pkt, should_throttle, sleep_until, cap, out, obs>>

(* --------------------- NetworkThrottler.run: start --------------------- *)
\* _initialize_target_process succeeds: find_process_by_name returns a pid out
\* of the enumeration procs and get_process_ports the ports of what the
\* connection enumeration conn gave.  An exception of get_process_ports other
\* than RuntimeError would pass line 106 and reach run's except Exception.
ResolveTarget(procs, conn) ==
    /\ pc = "start"
    /\ FindProcessByName(procs, config.process_name_substring) # 0
    /\ target_pid' = FindProcessByName(procs, config.process_name_substring)
    /\ LET r == GetProcessPorts(conn)
       IN  IF r.raised
           THEN /\ pc' = "except"
                /\ cap' = [cap EXCEPT !.exc = "ports"]
                /\ target_ports' = target_ports
                /\ obs' = [obs EXCEPT !.resolved = TRUE, !.procs = procs,
                                      !.conn_error = conn.error,
                                      !.end_cause = "ports"]
           ELSE /\ pc' = "kbd"
                /\ cap' = cap
                /\ target_ports' = r.ports
                /\ obs' = [obs EXCEPT !.resolved = TRUE, !.procs = procs,
                                      !.conn_error = conn.error]
    /\ UNCHANGED <<clock, config, lim, stats, throttling_enabled, shutdown_event, kh,
                   pkt, should_throttle, sleep_until, out>>

\* find_process_by_name raises RuntimeError (no process of the enumeration
\* matches): lines 106-112 re-raise it and run's except Exception takes over
TargetNotFound(procs) ==
    /\ pc = "start"
    /\ FindProcessByName(procs, config.process_name_substring) = 0
    /\ pc' = "except"
    /\ cap' = [cap EXCEPT !.exc = "notfound"]
    /\ obs' = [obs EXCEPT !.resolved = TRUE, !.procs = procs, !.end_cause = "notfound"]
    /\ UNCHANGED <<clock, config, lim, stats, throttling_enabled, shutdown_event, kh,
                   target_pid, target_ports, pkt, should_throttle, sleep_until, out>>

\* _setup_keyboard_handler and KeyboardHandler.start
SetupKeyboardHandler ==
    /\ pc = "kbd"
    /\ kh' = [running |-> TRUE, thread |-> "wait"]
    /\ pc' = "open1"
    /\ UNCHANGED <<clock, config, lim, stats, throttling_enabled, shutdown_event,
                   target_pid, target_ports, pkt, should_throttle, sleep_until, cap, out, obs>>

(* ------------------ _packet_capture_context: the ladder ---------------- *)
\* the filter a rung of the ladder opens capture with
FilterOfRung(rung) ==
    IF rung = 1 THEN FirstFilter(target_ports)
    ELSE IF rung = 2 THEN SimpleFilter(target_ports)
    ELSE BasicFilter

\* one call of pydivert.WinDivert(filter): the filter, how the open ended, and
\* whether the loop had already run on an earlier handle
Attempt(rung, outcome) ==
    [filter |-> FilterOfRung(rung), outcome |-> outcome, reopen |-> cap.yielded]

\* what an open that succeeded leads to: the first yield starts the loop; a
\* second yield makes contextlib raise "generator didn't stop after throw()".
\* Up to Python 3.11 the generator then stays suspended inside the with
\* statement of the new handle, which stays open; from Python 3.12 on
\* contextlib closes the generator first, and that closes the handle
OpenSucceeded(rung) ==
    IF cap.yielded
    THEN \E closed \in BOOLEAN :
            /\ pc' = "except"
            /\ cap' = [cap EXCEPT !.open = IF closed THEN @ ELSE @ \cup {rung},
                                  !.exc = "gen_didnt_stop",
                                  !.attempts = Append(@, Attempt(rung, "ok"))]
    ELSE /\ pc' = "recv"
         /\ cap' = [cap EXCEPT !.open = @ \cup {rung}, !.rung = rung, !.yielded = TRUE,
                               !.attempts = Append(@, Attempt(rung, "ok"))]

\* line 213: open with the first filter
OpenFirst(outcome) ==
    /\ pc = "open1"
    /\ IF outcome = "ok"
       THEN OpenSucceeded(1)
       ELSE /\ pc' = RungAfterFailure(target_ports, outcome)
            /\ cap' = [cap EXCEPT !.err = outcome, !.attempts = Append(@, Attempt(1, outcome))]
    /\ obs' = obs
    /\ UNCHANGED <<clock, config, lim, stats, throttling_enabled, shutdown_event, kh,
                   target_pid, target_ports, pkt, should_throttle, sleep_until, out>>

\* lines 222-237: open with the simplified filter
OpenSimple(outcome) ==
    /\ pc = "open2"
    /\ IF outcome = "ok"
       THEN OpenSucceeded(2)
       ELSE /\ pc' = "open3"
            /\ cap' = [cap EXCEPT !.attempts = Append(@, Attempt(2, outcome))]
    /\ UNCHANGED <<clock, config, lim, stats, throttling_enabled, shutdown_event, kh,
                   target_pid, target_ports, pkt, should_throttle, sleep_until, out, obs>>

\* lines 240-250: open with the basic filter; when it fails too, the bare raise
\* re-raises the exception caught at line 217
OpenBasic(outcome) ==
    /\ pc = "open3"
    /\ IF outcome = "ok"
       THEN /\ OpenSucceeded(3)
            /\ obs' = obs
       ELSE /\ pc' = "except"
            /\ cap' = [cap EXCEPT !.exc = cap.err, !.attempts = Append(@, Attempt(3, outcome))]
            /\ obs' = [obs EXCEPT !.end_cause =
                          IF cap.yielded THEN @ ELSE "openfail"]
    /\ UNCHANGED <<clock, config, lim, stats, throttling_enabled, shutdown_event, kh,
                   target_pid, target_ports, pkt, should_throttle, sleep_until, out>>

\* an Exception raised in the body of run's with block is thrown into the
\* generator at the yield it is suspended on: the handle of that rung is closed
\* by its with statement and the enclosing except clause catches the exception
BodyException(msg) ==
    /\ obs' = [obs EXCEPT !.end_cause = "runtime", !.body_exc = msg]
    /\ pkt' = NoPacket
    /\ IF cap.rung = 1
       THEN /\ pc' = RungAfterFailure(target_ports, msg)
            /\ cap' = [cap EXCEPT !.open = @ \ {1}, !.rung = 0, !.err = msg]
       ELSE IF cap.rung = 2
       THEN /\ pc' = "open3"
            /\ cap' = [cap EXCEPT !.open = @ \ {2}, !.rung = 0]
       ELSE /\ pc' = "except"
            /\ cap' = [cap EXCEPT !.open = @ \ {3}, !.rung = 0, !.exc = cap.err]

(* ------------------------- the capture loop ---------------------------- *)
\* line 272: the handle's iterator hands over the next captured packet
Recv(size, limit) ==
    /\ pc = "recv"
    /\ obs.taken < limit
    /\ pkt' = [id |-> obs.taken + 1, size |-> size]
    /\ obs' = [obs EXCEPT !.taken = @ + 1, !.sizes = @ \cup {size}]
    /\ pc' = "check"
    /\ UNCHANGED <<clock, config, lim, stats, throttling_enabled, shutdown_event, kh,
                   target_pid, target_ports, should_throttle, sleep_until, cap, out>>

\* line 272: the iterator raises instead
RecvError(msg) ==
    /\ pc = "recv"
    /\ BodyException(msg)
    /\ UNCHANGED <<clock, config, lim, stats, throttling_enabled, shutdown_event, kh,
                   target_pid, target_ports, should_throttle, sleep_until, out>>

\* leaving the with block normally: the generator resumes after its yield and
\* the handle's with statement closes the handle
CloseCapture == [cap EXCEPT !.open = @ \ {cap.rung}, !.rung = 0]

\* lines 274-275: the shutdown test, made with the packet already taken
CheckShutdown ==
    /\ pc = "check"
    /\ IF shutdown_event
       THEN /\ pc' = "shutdown"
            /\ cap' = CloseCapture
            /\ pkt' = NoPacket
            /\ obs' = [obs EXCEPT !.end_cause = "break", !.lost = @ + 1]
       ELSE /\ pc' = "proc"
            /\ UNCHANGED <<cap, pkt, obs>>
    /\ UNCHANGED <<clock, config, lim, stats, throttling_enabled, shutdown_event, kh,
                   target_pid, target_ports, should_throttle, sleep_until, out>>

\* the draw compared one step too high
ShouldDropPacketShifted(r, rate) == r + 1 < rate

\* _should_drop_packet: random.random() < packet_drop_rate, with the draw r
\* standing for r / DropScale in [0, 1) and the rate for rate / DropScale
ShouldDropPacket(r, rate) == r < rate

\* _process_packet, lines 149-165: count, read the mode once, draw for a drop
\* a draw that is made whether or not throttling is on
DropDecisionUnconditional(st, r, rate) == ShouldDropPacket(r, rate)

\* lines 155-159: the draw is made only inside `if should_throttle`
DropDecision(st, r, rate) == st /\ ShouldDropPacket(r, rate)

\* a drop without the return of line 162
NextStepNoReturn(drop, st) == IF st THEN "thr_refill" ELSE "send"

\* lines 155-168: where _process_packet goes after the counting: back to the
\* loop for a dropped packet (line 162), into _apply_throttling when
\* should_throttle (line 165), straight to the send otherwise (line 168)
NextStep(drop, st) == IF drop THEN "recv" ELSE IF st THEN "thr_refill" ELSE "send"

\* a throttled counter that counts every packet
CountThrottledAlways(st) == 1

\* lines 155-156: increment_throttled is called only when should_throttle
CountThrottled(st) == IF st THEN 1 ELSE 0

ProcessPacket(r) ==
    /\ pc = "proc"
    /\ should_throttle' = throttling_enabled
    /\ LET st == throttling_enabled
           drop == DropDecision(st, r, config.packet_drop_rate)
       IN  /\ stats' = [processed_packets |-> stats.processed_packets + 1,
                        throttled_packets |-> stats.throttled_packets + CountThrottled(st),
                        dropped_packets |-> stats.dropped_packets + (IF drop THEN 1 ELSE 0)]
           /\ pc' = NextStep(drop, st)
           /\ pkt' = IF pc' = "recv" THEN NoPacket ELSE pkt
    /\ UNCHANGED <<clock, config, lim, throttling_enabled, shutdown_event, kh,
                   target_pid, target_ports, sleep_until, cap, out, obs>>

(* -------------------- BandwidthLimiter.throttle steps ------------------ *)
\* lines 67-68: the lock is taken, then the tokens are refilled
ThrottleRefill ==
    /\ pc = "thr_refill"
    /\ lim.lock = "free"
    /\ lim' = RefillTokens(Acquire(lim), clock)
    /\ obs' = [obs EXCEPT !.waited = FALSE]
    /\ pc' = "thr_window"
    /\ UNCHANGED <<clock, config, stats, throttling_enabled, shutdown_event, kh,
                   target_pid, target_ports, pkt, should_throttle, sleep_until, cap, out>>

\* line 69
ThrottleWindow ==
    /\ pc = "thr_window"
    /\ lim' = ResetWindowIfNeeded(lim, clock)
    /\ pc' = "thr_check"
    /\ UNCHANGED <<clock, config, stats, throttling_enabled, shutdown_event, kh,
                   target_pid, target_ports, pkt, should_throttle, sleep_until, cap, out, obs>>

\* lines 72-79 and 86: wait for the rest of the window, or account at once
ThrottleCheck ==
    /\ pc = "thr_check"
    /\ IF NeedsThrottle(lim, pkt.size) /\ TimeRemaining(lim, clock) > 0
       THEN /\ sleep_until' = clock + TimeRemaining(lim, clock)
            /\ pc' = "thr_sleep"
            /\ obs' = [obs EXCEPT !.waited = TRUE]
            /\ lim' = lim
       ELSE /\ lim' = Release(Account(lim, pkt.size))
            /\ pc' = "thr_done"
            /\ UNCHANGED <<sleep_until, obs>>
    /\ UNCHANGED <<clock, config, stats, throttling_enabled, shutdown_event, kh,
                   target_pid, target_ports, pkt, should_throttle, cap, out>>

\* lines 79-86: the sleep is over, the window restarts and the packet is accounted
ThrottleWake ==
    /\ pc = "thr_sleep"
    /\ clock >= sleep_until
    /\ lim' = Release(Account(ResetAfterWait(lim, clock), pkt.size))
    /\ sleep_until' = 0
    /\ pc' = "thr_done"
    /\ UNCHANGED <<clock, config, stats, throttling_enabled, shutdown_event, kh,
                   target_pid, target_ports, pkt, should_throttle, cap, out, obs>>

(* ----------------- _apply_throttling and the forward ------------------- *)
\* _apply_throttling, lines 139-140
ApplyLag ==
    /\ pc = "thr_done"
    /\ IF config.lag_delay > 0
       THEN /\ sleep_until' = clock + config.lag_delay
            /\ pc' = "lag_sleep"
       ELSE /\ pc' = "send"
            /\ UNCHANGED sleep_until
    /\ UNCHANGED <<clock, config, lim, stats, throttling_enabled, shutdown_event, kh,
                   target_pid, target_ports, pkt, should_throttle, cap, out, obs>>

LagWake ==
    /\ pc = "lag_sleep"
    /\ clock >= sleep_until
    /\ sleep_until' = 0
    /\ pc' = "send"
    /\ UNCHANGED <<clock, config, lim, stats, throttling_enabled, shutdown_event, kh,
                   target_pid, target_ports, pkt, should_throttle, cap, out, obs>>

\* a forward that overtakes what was sent before
ForwardFront(sent, p) == <<p.id>> \o sent

\* windivert_handle.send: the packet joins what was re-injected
Forward(sent, p) == Append(sent, p.id)

\* _update_status: the report, when the processed count is a multiple
StatusReports(reports, mode) ==
    IF stats.processed_packets % config.status_update_interval = 0
    THEN reports \cup {[count |-> stats.processed_packets,
                        mode |-> IF mode THEN "THROTTLING" ELSE "NORMAL",
                        throttled |-> stats.throttled_packets,
                        dropped |-> stats.dropped_packets]}
    ELSE reports

\* the flag read again for the report
ModeReread(snapshot, current) == current

\* _process_packet, line 171: the mode handed to _update_status is the value
\* read at line 153
ModeShown(snapshot, current) == snapshot

\* _process_packet, lines 168-171
Send ==
    /\ pc = "send"
    /\ out' = [out EXCEPT !.sent = Forward(@, pkt),
                          !.status = StatusReports(@, ModeShown(should_throttle,
                                                               throttling_enabled))]
    /\ pkt' = NoPacket
    /\ pc' = "recv"
    /\ UNCHANGED <<clock, config, lim, stats, throttling_enabled, shutdown_event, kh,
                   target_pid, target_ports, should_throttle, sleep_until, cap, obs>>

\* line 168: send raises
SendError(msg) ==
    /\ pc = "send"
    /\ BodyException(msg)
    /\ UNCHANGED <<clock, config, lim, stats, throttling_enabled, shutdown_event, kh,
                   target_pid, target_ports, should_throttle, sleep_until, out>>

(* ------------------- run: handlers and shutdown ------------------------ *)
InTry == {"start", "kbd", "open1", "open2", "open3", "recv", "check", "proc",
          "thr_refill", "thr_window", "thr_check", "thr_sleep", "thr_done",
          "lag_sleep", "send"}

\* Ctrl-C on the main thread inside run's try: the with statements close the
\* handle, lines 280-282 handle the KeyboardInterrupt, then the finally runs
KeyboardInterrupt ==
    /\ pc \in InTry
    /\ pc' = "shutdown"
    /\ cap' = CloseCapture
    /\ pkt' = NoPacket
    /\ sleep_until' = 0
    /\ obs' = [obs EXCEPT !.end_cause = "kbdint"]
    /\ UNCHANGED <<clock, config, lim, stats, throttling_enabled, shutdown_event, kh,
                   target_pid, target_ports, should_throttle, out>>

\* a re-raise that skips the finally block
AfterExceptSkipped == "done"

\* where run goes after its except Exception clause: the finally block
AfterExcept == "shutdown"

\* lines 284-288: log, troubleshooting text, re-raise
RunExcept ==
    /\ pc = "except"
    /\ out' = [out EXCEPT !.troubleshooting = TRUE, !.raised = cap.exc]
    /\ pc' = AfterExcept
    /\ UNCHANGED <<clock, config, lim, stats, throttling_enabled, shutdown_event, kh,
                   target_pid, target_ports, pkt, should_throttle, sleep_until, cap, obs>>

\* a stop that may be called from the listener thread
JoinNeverRaises(caller) == FALSE

\* KeyboardHandler.stop, lines 45-46: Thread.join raises RuntimeError when the
\* caller is the listener thread itself
JoinRaises(caller) == caller = "listener"

\* KeyboardHandler.stop called by caller: _running is cleared, and the join
\* either raises (the rest of shutdown is skipped) or returns, because the
\* listener thread has ended or because the second of its timeout is over
StopCompletes(caller, thread) == thread = "none" \/ ~JoinRaises(caller)

\* log_final_stats, reached when stop returned
FinalReports(n, caller, thread) ==
    IF StopCompletes(caller, thread) THEN n + 1 ELSE n

\* shutdown, lines 77-86, called by run's finally block on the main thread
Shutdown ==
    /\ pc = "shutdown"
    /\ shutdown_event' = TRUE
    /\ kh' = [kh EXCEPT !.running = FALSE]
    /\ obs' = [obs EXCEPT !.shutdown_calls = @ + 1]
    /\ out' = [out EXCEPT !.final = FinalReports(@, "main", kh.thread)]
    /\ pc' = "done"
    /\ UNCHANGED <<clock, config, lim, stats, throttling_enabled, target_pid, target_ports, pkt,
                   should_throttle, sleep_until, cap>>

(* ---------------------- the key listener thread ------------------------ *)
\* _keyboard_listener, line 26: the loop test after an event was handled
ListenerLoop(running) == IF running THEN "wait" ELSE "exited"

\* a toggle that only ever switches throttling on
ToggledOn(enabled) == TRUE

\* toggle_throttling, line 62
Toggled(enabled) == ~enabled

\* a flag whose lock the main thread keeps while a packet is asleep
HoldsThrottlingLockAsleep(at) == at \in {"thr_sleep", "lag_sleep"}

\* whether the main thread holds _throttling_lock at position at: it takes the
\* lock only inside the property read of line 153 (lines 56-57), which starts
\* and ends within the step that counts the packet
HoldsThrottlingLock(at) == FALSE

\* the main thread is inside time.sleep and the sleep is not over
Asleep == pc \in {"thr_sleep", "lag_sleep"} /\ clock < sleep_until

\* the toggle key: toggle_throttling, which needs _throttling_lock; followed up
\* to limit key presses
ListenerToggleKey(limit) ==
    /\ kh.thread = "wait"
    /\ obs.toggles < limit
    /\ ~HoldsThrottlingLock(pc)
    /\ throttling_enabled' = Toggled(throttling_enabled)
    /\ kh' = [kh EXCEPT !.thread = ListenerLoop(kh.running)]
    /\ obs' = [obs EXCEPT !.toggles = @ + 1, !.toggled_asleep = Asleep]
    /\ UNCHANGED <<clock, config, lim, stats, shutdown_event, target_pid, target_ports, pc, pkt,
                   should_throttle, sleep_until, cap, out>>

\* the exit key: shutdown called on the listener thread; stop's join of the
\* current thread raises, the exception ends shutdown before log_final_stats
\* and is caught at line 32
ListenerExitKey ==
    /\ kh.thread = "wait"
    /\ shutdown_event' = TRUE
    /\ kh' = [running |-> FALSE, thread |-> ListenerLoop(FALSE)]
    /\ obs' = [obs EXCEPT !.shutdown_calls = @ + 1]
    /\ out' = [out EXCEPT !.final = FinalReports(@, "listener", kh.thread)]
    /\ UNCHANGED <<clock, config, lim, stats, throttling_enabled, target_pid, target_ports, pc, pkt,
                   should_throttle, sleep_until, cap>>

\* a key without a callback, or a key release
ListenerOtherKey ==
    /\ kh.thread = "wait"
    /\ kh' = [kh EXCEPT !.thread = ListenerLoop(kh.running)]
    /\ UNCHANGED <<clock, config, lim, stats, throttling_enabled, shutdown_event,
                   target_pid, target_ports, pc, pkt, should_throttle, sleep_until, cap, out, obs>>

(* ------------- BandwidthLimiter driven by a client --------------------- *)
\* a client calls throttle(size); the steps of the call are those above.  The
\* size is not validated; calls with a negative size stop once bytes_sent has
\* gone MaxRefund below zero
CallThrottle(size) ==
    /\ pc = "idle"
    /\ size < 0 => lim.bytes_sent > 0 - MaxRefund
    /\ pkt' = [id |-> 0, size |-> size]
    /\ pc' = "thr_refill"
    /\ UNCHANGED <<clock, config, lim, stats, throttling_enabled, shutdown_event, kh,
                   target_pid, target_ports, should_throttle, sleep_until, cap, out, obs>>

\* throttle returns to the client
ThrottleReturn ==
    /\ pc = "thr_done"
    /\ pkt' = NoPacket
    /\ pc' = "idle"
    /\ UNCHANGED <<clock, config, lim, stats, throttling_enabled, shutdown_event, kh,
                   target_pid, target_ports, should_throttle, sleep_until, cap, out, obs>>

\* can_send, lines 97-99: the answer is kept in should_throttle's place
CanSendResult(l, size) == l.tokens >= size * WindowTicks

CanSend(size) ==
    /\ pc = "idle"
    /\ lim.lock = "free"
    /\ lim' = RefillTokens(lim, clock)
    /\ obs' = [obs EXCEPT !.can_send = CanSendResult(lim', size),
                          !.call = "can_send", !.asked = size]
    /\ UNCHANGED <<clock, config, stats, throttling_enabled, shutdown_event, kh,
                   target_pid, target_ports, pc, pkt, should_throttle, sleep_until, cap, out>>

\* the new limit stored and a new window started with it
StoreRateNewWindow(l, rate) ==
    [l EXCEPT !.max_bytes_per_second = rate, !.bucket_size = rate, !.bytes_sent = 0]

\* update_rate_limit, lines 130-131: the two assignments of the new limit
StoreRate(l, rate) ==
    [l EXCEPT !.max_bytes_per_second = rate, !.bucket_size = rate]

\* the new limit stored without the adjustment of the tokens
UpdateRateLimitUnclamped(l, rate) == StoreRate(l, rate)

\* update_rate_limit, lines 129-135
UpdateRateLimit(l, rate) ==
    LET m == StoreRate(l, rate)
    IN  IF m.tokens > m.bucket_size * WindowTicks
        THEN [m EXCEPT !.tokens = m.bucket_size * WindowTicks]
        ELSE m

CallUpdateRateLimit(rate) ==
    /\ pc = "idle"
    /\ lim.lock = "free"
    /\ lim' = UpdateRateLimit(lim, rate)
    /\ obs' = [obs EXCEPT !.call = "update_rate_limit", !.new_rate = rate]
    /\ UNCHANGED <<clock, config, stats, throttling_enabled, shutdown_event, kh,
                   target_pid, target_ports, pc, pkt, should_throttle, sleep_until, cap, out>>

\* reset, lines 141-145
ResetLimiter(l, now) ==
    [l EXCEPT !.tokens = l.bucket_size * WindowTicks, !.last_refill = now,
              !.bytes_sent = 0, !.window_start = now]

CallReset ==
    /\ pc = "idle"
    /\ lim.lock = "free"
    /\ lim' = ResetLimiter(lim, clock)
    /\ obs' = [obs EXCEPT !.call = "reset"]
    /\ UNCHANGED <<clock, config, stats, throttling_enabled, shutdown_event, kh,
                   target_pid, target_ports, pc, pkt, should_throttle, sleep_until, cap, out>>

\* where a call stands that is about to take the lock at line 107: made by the
\* client, or made by get_stats at line 160
RateCallers == {"rate_lock", "stats_rate_lock"}

\* a client calls get_current_rate_kbps
CallGetCurrentRateKbps ==
    /\ pc = "idle"
    /\ pc' = "rate_lock"
    /\ UNCHANGED <<clock, config, lim, stats, throttling_enabled, shutdown_event, kh,
                   target_pid, target_ports, pkt, should_throttle, sleep_until, cap, out, obs>>

\* get_current_rate_kbps, lines 107-113: once the lock is free it is taken, the
\* rate is computed, the lock is released and the call returns
GetCurrentRateKbps ==
    /\ pc \in RateCallers
    /\ lim.lock = "free"
    /\ pc' = IF pc = "rate_lock" THEN "idle" ELSE "stats_rate_done"
    /\ UNCHANGED <<clock, config, lim, stats, throttling_enabled, shutdown_event, kh,
                   target_pid, target_ports, pkt, should_throttle, sleep_until, cap, out, obs>>

\* get_stats, lines 155-160: the lock is taken and, with the lock held, the
\* dictionary's fourth entry calls get_current_rate_kbps
GetStats ==
    /\ lim.lock = "free"
    /\ lim' = Acquire(lim)
    /\ pc' = "stats_rate_lock"

CallGetStats ==
    /\ pc = "idle"
    /\ GetStats
    /\ UNCHANGED <<clock, config, stats, throttling_enabled, shutdown_event, kh,
                   target_pid, target_ports, pkt, should_throttle, sleep_until, cap, out, obs>>

\* AdaptiveBandwidthLimiter.throttle, line 218: more than 0.5 s into the window
AdaptDue(l, now) == 2 * (now - l.window_start) > WindowTicks

\* the fields an access touches when it is made without the lock
Unlocked(l, fields) == IF l.lock = "held" THEN {} ELSE fields

\* AdaptiveBandwidthLimiter.throttle: line 218 reads window_start outside the
\* lock; when the adaptation is due, adapt_rate calls detect_congestion, which
\* calls get_stats; otherwise the base throttle follows at once
CallAdaptiveThrottle(size) ==
    /\ pc = "idle"
    /\ obs' = [obs EXCEPT !.unlocked = @ \cup Unlocked(lim, {"window_start"}),
                          !.adapting = AdaptDue(lim, clock)]
    /\ IF AdaptDue(lim, clock)
       THEN /\ GetStats
            /\ pkt' = pkt
       ELSE /\ pkt' = [id |-> 0, size |-> size]
            /\ pc' = "thr_refill"
            /\ lim' = lim
    /\ UNCHANGED <<clock, config, stats, throttling_enabled, shutdown_event, kh,
                   target_pid, target_ports, should_throttle, sleep_until, cap, out>>

(* --------------------------- specifications ---------------------------- *)
\* the enumerations of the pipeline runs: no process at all, and a process
\* that does not match followed by one that does
NoMatch == <<>>
OneMatch == <<[pid |-> 8, name |-> <<"b">>], [pid |-> 4, name |-> <<"A", "b">>]>>
\* their connection enumerations: it fails, or it gives 6 ports
PipelineConnections == {Failed("AccessDenied"), Connections(6)}
PacketSizes == 1..MaxPacketSize
Draws == 0..(DropScale - 1)

Pipeline ==
    \/ TargetNotFound(NoMatch)
    \/ SetupKeyboardHandler
    \/ \E o \in OpenOutcomes : OpenFirst(o)
    \/ \E o \in LadderOutcomes : OpenSimple(o)
    \/ \E o \in LadderOutcomes : OpenBasic(o)
    \/ \E m \in ErrorMessages : RecvError(m)
    \/ CheckShutdown
    \/ \E r \in Draws : ProcessPacket(r)
    \/ ThrottleRefill
    \/ ThrottleWindow
    \/ ThrottleCheck
    \/ ThrottleWake
    \/ ApplyLag
    \/ LagWake
    \/ Send
    \/ \E m \in ErrorMessages : SendError(m)
    \/ KeyboardInterrupt
    \/ RunExcept
    \/ Shutdown
    \/ ListenerToggleKey(MaxToggles)
    \/ ListenerExitKey
    \/ ListenerOtherKey

Next ==
    \/ Pipeline
    \/ Tick(MaxTime)
    \/ \E c \in PipelineConnections : ResolveTarget(OneMatch, c)
    \/ \E s \in PacketSizes : Recv(s, MaxPackets)

Spec == Init /\ [][Next]_vars

\* the limiter alone, called by one client in any order
Rates == 1..MaxRate

InitLimiter == InitWith(NewConfig(0, 0), "idle")

\* the sizes a client passes to throttle
ThrottleSizes == PacketSizes \cup {-1}

LimiterCalls ==
    \/ Tick(MaxLimiterTime)
    \/ \E s \in ThrottleSizes : CallThrottle(s)
    \/ ThrottleRefill
    \/ ThrottleWindow
    \/ ThrottleCheck
    \/ ThrottleWake
    \/ ThrottleReturn
    \/ \E s \in PacketSizes : CanSend(s)
    \/ \E r \in Rates : CallUpdateRateLimit(r)
    \/ CallReset
    \/ CallGetCurrentRateKbps
    \/ GetCurrentRateKbps
    \/ CallGetStats

SpecLimiter == InitLimiter /\ [][LimiterCalls]_vars

\* the adaptive limiter alone: its throttle overrides the base one
AdaptiveCalls ==
    \/ Tick(MaxLimiterTime)
    \/ \E s \in PacketSizes : CallAdaptiveThrottle(s)
    \/ ThrottleRefill
    \/ ThrottleWindow
    \/ ThrottleCheck
    \/ ThrottleWake
    \/ ThrottleReturn
    \/ \E s \in PacketSizes : CanSend(s)
    \/ \E r \in Rates : CallUpdateRateLimit(r)
    \/ CallReset
    \/ CallGetCurrentRateKbps
    \/ GetCurrentRateKbps

SpecAdaptive == InitLimiter /\ [][AdaptiveCalls]_vars

\* the filter ladder with every port count, a short capture and no toggle
InitCapture == InitWith(NewConfig(0, 0), "start")

CaptureConnections ==
    {Failed(e) : e \in ConnectionErrors} \cup {Connections(n) : n \in 0..MaxPorts}

NextCapture ==
    \/ Tick(MaxTime)
    \/ \E c \in CaptureConnections : ResolveTarget(OneMatch, c)
    \/ TargetNotFound(NoMatch)
    \/ SetupKeyboardHandler
    \/ \E o \in OpenOutcomes : OpenFirst(o)
    \/ \E o \in LadderOutcomes : OpenSimple(o)
    \/ \E o \in LadderOutcomes : OpenBasic(o)
    \/ \E s \in PacketSizes : Recv(s, MaxCapturePackets)
    \/ \E m \in ErrorMessages : RecvError(m)
    \/ CheckShutdown
    \/ \E r \in Draws : ProcessPacket(r)
    \/ Send
    \/ \E m \in ErrorMessages : SendError(m)
    \/ KeyboardInterrupt
    \/ RunExcept
    \/ Shutdown
    \/ ListenerExitKey

SpecCapture == InitCapture /\ [][NextCapture]_vars

\* the resolution of the target: every enumeration of up to MaxProcs processes
\* with names of up to MaxNameLen letters, several configured substrings, and
\* the start of the run up to the first captured packet
Names == UNION {[1..n -> Letters] : n \in 0..MaxNameLen}
Pids == {4 * i : i \in 1..MaxProcs}
Enumerations ==
    {e \in UNION {[1..n -> [pid : Pids, name : Names]] : n \in 0..MaxProcs} :
        \A i, j \in 1..Len(e) : i # j => e[i].pid # e[j].pid}
Substrings == {<<>>, <<"a">>, <<"B">>, <<"a", "b">>, <<"B", "a">>}

InitResolve ==
    \E sub \in Substrings :
        InitWith([NewConfig(0, 0) EXCEPT !.process_name_substring = sub], "start")

NextResolve ==
    \/ \E e \in Enumerations : ResolveTarget(e, Connections(0))
    \/ \E e \in Enumerations : TargetNotFound(e)
    \/ SetupKeyboardHandler
    \/ \E o \in OpenOutcomes : OpenFirst(o)
    \/ \E o \in LadderOutcomes : OpenBasic(o)
    \/ \E s \in PacketSizes : Recv(s, MaxCapturePackets)
    \/ KeyboardInterrupt
    \/ RunExcept
    \/ Shutdown

SpecResolve == InitResolve /\ [][NextResolve]_vars

\* a burst: the loop has just taken its first packet at clock 0, throttling was
\* switched on before, no delay and no loss are configured, and the limiter was
\* constructed a ticks earlier
InitBurst ==
    \E a \in 0..WindowTicks, s \in PacketSizes :
        /\ clock = 0
        /\ config = NewConfig(0, 0)
        /\ lim = NewLimiter(max_bytes_per_second, 0 - a)
        /\ stats = [processed_packets |-> 0, throttled_packets |-> 0, dropped_packets |-> 0]
        /\ throttling_enabled = TRUE
        /\ shutdown_event = FALSE
        /\ kh = [running |-> TRUE, thread |-> "wait"]
        /\ target_pid = 4
        /\ target_ports = {}
        /\ pc = "check"
        /\ pkt = [id |-> 1, size |-> s]
        /\ should_throttle = FALSE
        /\ sleep_until = 0
        /\ cap = [rung |-> 1, yielded |-> TRUE, open |-> {1},
                  attempts |-> <<[filter |-> FirstFilter({}), outcome |-> "ok",
                                  reopen |-> FALSE]>>,
                  err |-> "none", exc |-> "none"]
        /\ out = [sent |-> <<>>, status |-> {}, final |-> 0, troubleshooting |-> FALSE,
                  raised |-> "none"]
        /\ obs = [taken |-> 1, shutdown_calls |-> 0, end_cause |-> "none",
                  waited |-> FALSE, lost |-> 0, can_send |-> TRUE, sizes |-> {s},
                  unlocked |-> {}, toggles |-> 1,
                  toggled_asleep |-> FALSE,
              call |-> "none", new_rate |-> 0, asked |-> 0, adapting |-> FALSE,
              body_exc |-> "none",
                  resolved |-> TRUE,
                  procs |-> <<[pid |-> 4, name |-> <<"a", "b">>]>>,
                  conn_error |-> "none"]

NextBurst ==
    \/ Tick(MaxBurstTime)
    \/ \E s \in PacketSizes : Recv(s, MaxBurstPackets)
    \/ CheckShutdown
    \/ \E r \in Draws : ProcessPacket(r)
    \/ ThrottleRefill
    \/ ThrottleWindow
    \/ ThrottleCheck
    \/ ThrottleWake
    \/ ApplyLag
    \/ Send

SpecBurst == InitBurst /\ [][NextBurst]_vars

(* ------------------------------- claims -------------------------------- *)
Sent == out.sent
Attempts == cap.attempts
Rejected(a) == a.outcome # "ok"

\* no packet is between its capture and the end of its processing
Quiet == pc = "recv" /\ pkt = NoPacket

\* every packet taken so far was processed with throttling on and had size s
BurstOf(s) ==
    /\ Quiet
    /\ stats.processed_packets >= 1
    /\ stats.processed_packets = obs.taken
    /\ stats.throttled_packets = stats.processed_packets
    /\ config.lag_delay = 0 /\ config.packet_drop_rate = 0
    /\ obs.sizes = {s}

\* C1 as the spec states it: with throttling on, delay 0 and drop rate 0, N
\* packets of size s <= capacity are all forwarded, none is dropped, and the
\* time from the first capture (clock 0) to the last forward is at least
\* N * s / capacity seconds.
C1_Original ==
    \A s \in 1..max_bytes_per_second :
        BurstOf(s) =>
            /\ Len(Sent) = stats.processed_packets
            /\ stats.dropped_packets = 0
            /\ clock * max_bytes_per_second
                   >= stats.processed_packets * s * WindowTicks

\* how many packets of size s a window lets through without a wait
PerWindow(s) == max_bytes_per_second \div s

\* C1 amended: all N packets are forwarded and none is dropped, but a window
\* lets through floor(capacity / s) packets, and one more when it runs out
\* during the check, without a wait, and the window of the first packet may be
\* about to end: the elapsed time is only at least
\* floor(N / (floor(capacity / s) + 1)) - 1 seconds.
C1_BurstBound ==
    \A s \in 1..max_bytes_per_second :
        BurstOf(s) =>
            /\ Len(Sent) = stats.processed_packets
            /\ stats.dropped_packets = 0
            /\ clock >= ((stats.processed_packets \div (PerWindow(s) + 1)) - 1)
                            * WindowTicks

C1_Witness ==
    /\ BurstOf(max_bytes_per_second)
    /\ stats.processed_packets >= 6
    /\ clock < 3 * WindowTicks

\* C2 as the spec states it: right after a throttle(s) call with s <= capacity
\* that returned without waiting, bytes_sent is at most the capacity.
C2_Original ==
    (pc = "thr_done" /\ ~obs.waited /\ pkt.size <= lim.max_bytes_per_second)
        => lim.bytes_sent <= lim.max_bytes_per_second

C4_AllDropped ==
    [][(/\ pc = "proc"
        /\ stats'.processed_packets # stats.processed_packets
        /\ throttling_enabled
        /\ config.packet_drop_rate = DropScale)
       => (/\ stats'.processed_packets = stats.processed_packets + 1
           /\ stats'.throttled_packets = stats.throttled_packets + 1
           /\ stats'.dropped_packets = stats.dropped_packets + 1
           /\ pc' = "recv"
           /\ pkt' = NoPacket
           /\ Sent' = Sent)]_vars

C4_Witness ==
    /\ config.packet_drop_rate = DropScale
    /\ stats.dropped_packets >= 2
    /\ stats.dropped_packets = stats.throttled_packets
    /\ Quiet

\* C5 as the spec states it: once the shutdown signal is set no further packet
\* is taken from the capture handle and none starts being processed.
C5_Original ==
    [][shutdown_event =>
          (/\ obs'.taken = obs.taken
           /\ pc = "check" => stats'.processed_packets = stats.processed_packets)]_vars

\* the filter of the second rung: at most 5 of the target ports
IsSimple(f) ==
    /\ f.kind = "precise"
    /\ Cardinality(f.ports) <= 5
    /\ f.ports \subseteq target_ports

PreciseRejected ==
    /\ Len(Attempts) >= 1
    /\ Attempts[1].filter.kind = "precise"
    /\ Rejected(Attempts[1])

\* the parts of C6 that do not depend on the error: capture starts on the first
\* open that succeeds, and an open error surfaces only once the bare filter
\* has been rejected too
LadderEnds ==
    /\ \A i \in 1..Len(Attempts) :
          (Attempts[i].outcome = "ok" /\ ~Attempts[i].reopen)
              => (cap.yielded /\ \A j \in (i + 1)..Len(Attempts) : Attempts[j].reopen)
    /\ (cap.exc \in ErrorMessages /\ ~cap.yielded)
          => (/\ Len(Attempts) >= 1
              /\ Attempts[Len(Attempts)].filter = BasicFilter
              /\ Rejected(Attempts[Len(Attempts)]))

\* C6 as the spec states it: after the precise filter is rejected the next
\* open uses at most 5 of the target ports, the one after that the bare
\* filter; capture starts on the first success and an error surfaces only
\* after the bare filter failed.
C6_Original ==
    /\ (PreciseRejected /\ Len(Attempts) >= 2) => IsSimple(Attempts[2].filter)
    /\ (PreciseRejected /\ Len(Attempts) >= 3 /\ Rejected(Attempts[2]))
          => Attempts[3].filter = BasicFilter
    /\ LadderEnds

\* C6 amended: the 5-port rung is tried only when the rejection's message
\* holds "parameter is incorrect"; after any other rejection the next open
\* already uses the bare filter.
C6_Ladder ==
    /\ (PreciseRejected /\ Len(Attempts) >= 2) =>
          IF Attempts[1].outcome = "pi"
          THEN IsSimple(Attempts[2].filter)
          ELSE Attempts[2].filter = BasicFilter
    /\ (PreciseRejected /\ Attempts[1].outcome = "pi" /\ Len(Attempts) >= 3
           /\ Rejected(Attempts[2]))
          => Attempts[3].filter = BasicFilter
    /\ LadderEnds

C6_Witness ==
    /\ PreciseRejected
    /\ Cardinality(target_ports) > 5
    /\ Len(Attempts) = 3
    /\ \A i \in 1..3 : Rejected(Attempts[i])
    /\ cap.exc = "pi"

\* C7: the first filter is the precise per-port filter exactly when there are
\* 1 to 20 target ports; with none or with more than 20 it is the range
\* filter on the configured [start, end].
C7_FirstFilter ==
    Len(Attempts) >= 1 =>
        LET f == Attempts[1].filter
            n == Cardinality(target_ports)
        IN  IF n >= 1 /\ n <= 20
            THEN f.kind = "precise" /\ f.ports = target_ports
            ELSE f.kind = "range" /\ f.lo = port_range_start /\ f.hi = port_range_end

C7_Witness ==
    /\ Len(Attempts) >= 1
    /\ Cardinality(target_ports) = 20
    /\ Attempts[1].filter.kind = "precise"

\* C8: packets are re-injected in the order of their capture.
C8_Order ==
    \A i, j \in 1..Len(Sent) : i < j => Sent[i] < Sent[j]

C8_Witness ==
    /\ Len(Sent) >= 3
    /\ stats.throttled_packets >= 1
    /\ stats.throttled_packets < stats.processed_packets
    /\ config.lag_delay > 0

\* C9 as the spec states it: a packet gets a status report exactly when its
\* processed count is a multiple of the interval, whatever its outcome.
C9_Original ==
    Quiet =>
        \A n \in 1..stats.processed_packets :
            (n % config.status_update_interval = 0)
                <=> (\E r \in out.status : r.count = n)

\* C10: run returns only through shutdown, which sets the event, stops the
\* listener and reports the final statistics as the last step, whatever
\* ended the run.
C10_ShutdownLast ==
    [][(pc # "done" /\ pc' = "done")
       => (/\ shutdown_event'
           /\ ~kh'.running
           /\ out'.final = out.final + 1
           /\ obs.end_cause \in {"notfound", "openfail", "runtime", "kbdint", "break"})]_vars

C10_Witness == pc = "done" /\ obs.end_cause = "runtime" /\ out.final = 1

\* C11 as the spec states it: when run has returned or raised, whatever the
\* exit path (loop end, shutdown break, a later rung failing, an error while a
\* packet is processed), no capture handle that was opened is still open.
C11_Original == pc = "done" => cap.open = {}

\* C12 as the spec states it: no call of the limiter blocks forever; in
\* particular a call that waits for the lock never waits for a lock that its
\* own calling context holds.
C12_Original == pc \in RateCallers => lim.lock = "free"

\* C13 as the spec states it: no field of the limiter is read or written
\* without the limiter's lock held.
C13_Original == obs.unlocked = {}

\* C14 as the spec states it: a throttle call with a negative size is rejected
\* (it never reaches the accounting and never returns normally) and leaves
\* bytes_sent, window_start and tokens as they were.
C14_Original ==
    [][(pkt.size < 0 /\ pc \in {"thr_refill", "thr_window", "thr_check", "thr_sleep"})
       => (/\ pc' # "thr_done"
           /\ lim'.bytes_sent = lim.bytes_sent
           /\ lim'.window_start = lim.window_start
           /\ lim'.tokens = lim.tokens)]_vars

\* C15: whatever sequence of throttle, can_send, update_rate_limit and reset
\* calls is made and however time advances between them, the tokens stay
\* between 0 and the capacity (both scaled by WindowTicks).
C15_TokensInRange ==
    /\ 0 <= lim.tokens
    /\ lim.tokens <= lim.max_bytes_per_second * WindowTicks

\* the limit was lowered below what the bucket held, and time went on
C15_Witness ==
    /\ lim.max_bytes_per_second < max_bytes_per_second
    /\ lim.tokens = lim.max_bytes_per_second * WindowTicks
    /\ lim.last_refill > 0
    /\ lim.bytes_sent > 0

\* C16: the flag is back at its original value (off) after every second
\* toggle, whatever packet processing ran in between, and a toggle leaves
\* the shutdown flag as it was.
C16_Involution ==
    /\ [](throttling_enabled <=> (obs.toggles % 2 = 1))
    /\ [][obs'.toggles # obs.toggles => shutdown_event' = shutdown_event]_vars

\* two toggles with a packet processed as throttled in between
C16_Witness ==
    /\ obs.toggles = 2
    /\ ~throttling_enabled
    /\ stats.throttled_packets >= 1
    /\ ~shutdown_event

\* the match of C17, letter by letter
SameLetter(c, d) == Lower(c) = Lower(d)
NameMatches(sub, name) ==
    \E k \in 0..(Len(name) - Len(sub)) :
        \A i \in 1..Len(sub) : SameLetter(sub[i], name[k + i])
MatchingProcs ==
    {i \in 1..Len(obs.procs) :
        NameMatches(config.process_name_substring, obs.procs[i].name)}

C17_NotFoundWitness ==
    /\ obs.resolved
    /\ Len(obs.procs) = 2
    /\ MatchingProcs = {}
    /\ pc = "done"

\* C18: when the connection enumeration of the resolved process fails, port
\* discovery gives the empty set and raises nothing; the run goes on, and the
\* first capture filter is the range filter on the configured bounds.
C18_PortsDegrade ==
    obs.conn_error # "none" =>
        /\ target_ports = {}
        /\ obs.end_cause \notin {"ports", "notfound"}
        /\ cap.exc # "ports"
        /\ pc # "start"
        /\ (pc = "done" /\ obs.end_cause # "kbdint") => Len(Attempts) >= 1
        /\ Len(Attempts) >= 1 =>
              Attempts[1].filter = RangeFilter(port_range_start, port_range_end)

C18_Witness ==
    /\ obs.conn_error = "AccessDenied"
    /\ Len(Attempts) = 1
    /\ Attempts[1].outcome = "ok"
    /\ obs.taken >= 1

\* C19 as the spec states it: every invocation of shutdown, on the listener
\* thread or on the main thread, sets the shutdown flag, stops the key
\* listener and emits the final statistics report before it returns.
C19_Original ==
    [][obs'.shutdown_calls # obs.shutdown_calls
       => (/\ shutdown_event'
           /\ ~kh'.running
           /\ out'.final = out.final + 1)]_vars

\* where a packet is while it is rate-limited or delayed
Shaping == {"thr_refill", "thr_window", "thr_check", "thr_sleep", "thr_done", "lag_sleep"}

\* C20: the flag is read once per packet, in the step that counts the packet;
\* that value decides whether throttled is incremented, whether the packet is
\* shaped and which mode its status report shows, and a toggle made while
\* the packet is in process changes nothing but the flag (and the ghost
\* count of toggles), so it takes effect from the next packet.
C20_ReadOnce ==
    [][/\ pc # "proc" => should_throttle' = should_throttle
       /\ stats'.processed_packets # stats.processed_packets
             => (/\ should_throttle' = throttling_enabled
                 /\ stats'.throttled_packets
                        = stats.throttled_packets + (IF should_throttle' THEN 1 ELSE 0))
       /\ throttling_enabled' # throttling_enabled
             => (/\ pc' = pc /\ pkt' = pkt /\ stats' = stats /\ out' = out
                 /\ lim' = lim /\ sleep_until' = sleep_until
                 /\ should_throttle' = should_throttle)
       /\ pc' \in Shaping => should_throttle'
       /\ (pc' = "send" /\ pc = "proc") => ~should_throttle'
       /\ \A r \in out'.status \ out.status :
             r.mode = (IF should_throttle THEN "THROTTLING" ELSE "NORMAL")]_vars

\* a packet that was shaped is about to be forwarded and reported, and
\* throttling was switched off in the meantime
C20_Witness ==
    /\ pc = "send"
    /\ should_throttle
    /\ ~throttling_enabled
    /\ stats.processed_packets % config.status_update_interval = 0

\* C21: while the main loop is asleep in the limiter's wait or in the fixed
\* delay, a toggle key press can be served at once: the toggle is a step that
\* is enabled, it neither advances the clock nor touches the sleep, the
\* limiter or the position of the main loop, and the next packet that is
\* counted reads the value it left.
C21_ToggleWhileAsleep ==
    /\ []((Asleep /\ kh.thread = "wait" /\ obs.toggles < MaxToggles)
            => ENABLED ListenerToggleKey(MaxToggles))
    /\ [][obs'.toggles # obs.toggles
            => (/\ clock' = clock /\ pc' = pc /\ sleep_until' = sleep_until
                /\ lim' = lim /\ pkt' = pkt)]_vars
    /\ [][stats'.processed_packets # stats.processed_packets
            => should_throttle' = throttling_enabled]_vars

\* the last toggle was made while a packet was asleep, and the packet after it
\* went out unshaped
C21_Witness ==
    /\ obs.toggled_asleep
    /\ obs.toggles = 2
    /\ pc = "send"
    /\ ~should_throttle
    /\ stats.throttled_packets >= 1

\* C22: the step that drops a packet adds one to processed, throttled and
\* dropped, hands the packet to nobody (nothing is re-injected, the loop is
\* back at the capture handle), and leaves the limiter, the clock and the
\* sleep untouched; dropped packets are never among the forwarded ones.
C22_DropTerminal ==
    /\ [][stats'.dropped_packets # stats.dropped_packets
            => (/\ stats'.processed_packets = stats.processed_packets + 1
                /\ stats'.throttled_packets = stats.throttled_packets + 1
                /\ stats'.dropped_packets = stats.dropped_packets + 1
                /\ Sent' = Sent
                /\ pc' = "recv" /\ pkt' = NoPacket
                /\ lim' = lim
                /\ clock' = clock /\ sleep_until' = sleep_until)]_vars
    /\ [](Len(Sent) + stats.dropped_packets <= stats.processed_packets)

\* the first packet was shaped and forwarded, the second one dropped
C22_Witness ==
    /\ Quiet
    /\ config.packet_drop_rate \notin {0, DropScale}
    /\ Sent = <<1>>
    /\ stats.processed_packets = 2
    /\ stats.dropped_packets = 1
    /\ lim.bytes_sent > 0

\* C23: a packet counted while throttling is off goes straight to the send:
\* processed grows by one, throttled and dropped stay, the limiter is not
\* called and no sleep is set; the send re-injects it and changes neither
\* the limiter nor the counters.
C23_Passthrough ==
    /\ [][(stats'.processed_packets # stats.processed_packets /\ ~throttling_enabled)
            => (/\ stats'.processed_packets = stats.processed_packets + 1
                /\ stats'.throttled_packets = stats.throttled_packets
                /\ stats'.dropped_packets = stats.dropped_packets
                /\ pc' = "send" /\ pkt' = pkt
                /\ lim' = lim
                /\ clock' = clock /\ sleep_until' = sleep_until)]_vars
    /\ [][(pc = "send" /\ ~should_throttle /\ Sent' # Sent)
            => (/\ Sent' = Append(Sent, pkt.id)
                /\ lim' = lim /\ stats' = stats
                /\ clock' = clock /\ sleep_until' = sleep_until)]_vars

\* two packets went through with throttling off although every throttled
\* packet would be dropped
C23_Witness ==
    /\ Quiet
    /\ config.packet_drop_rate = DropScale
    /\ stats.throttled_packets = 0
    /\ Len(Sent) >= 2
    /\ lim.bytes_sent = 0

\* a step that is one whole call of the named one-step operation of the limiter
OneStepCall(name) ==
    /\ pc = "idle" /\ pc' = "idle"
    /\ clock' = clock
    /\ obs'.call = name

\* C24: update_rate_limit(new) is one step under the lock; after it the
\* capacity (and the bucket size) is new, the tokens are new (scaled) when
\* they were above it and are unchanged otherwise, and window_start,
\* bytes_sent and last_refill are what they were.
C24_UpdateFrame ==
    [][OneStepCall("update_rate_limit")
       => (/\ lim.lock = "free" /\ lim'.lock = "free"
           /\ lim'.max_bytes_per_second = obs'.new_rate
           /\ lim'.bucket_size = obs'.new_rate
           /\ lim'.tokens = IF lim.tokens > obs'.new_rate * WindowTicks
                            THEN obs'.new_rate * WindowTicks
                            ELSE lim.tokens
           /\ lim'.window_start = lim.window_start
           /\ lim'.bytes_sent = lim.bytes_sent
           /\ lim'.last_refill = lim.last_refill)]_vars

\* the limit was lowered in the middle of a window that had bytes accounted,
\* and the tokens came down with it
C24_Witness ==
    /\ pc = "idle"
    /\ obs.call = "update_rate_limit"
    /\ obs.new_rate < max_bytes_per_second
    /\ lim.max_bytes_per_second = obs.new_rate
    /\ lim.tokens = obs.new_rate * WindowTicks
    /\ lim.bytes_sent > obs.new_rate
    /\ lim.window_start < clock

\* C25 as the spec states it: an evaluation of the adaptive limiter computes
\* its new rate, so the call that started it goes on: the statistics it asks
\* for are delivered.
C25_Original == obs.adapting => ENABLED GetCurrentRateKbps

\* C26 as the spec states it: when the capture loop has exited without an
\* error, every packet taken was processed, and was either sent or dropped.
C26_Original ==
    (pc \in {"shutdown", "done"} /\ obs.end_cause = "break")
        => (/\ stats.processed_packets = obs.taken
            /\ obs.taken = Len(Sent) + stats.dropped_packets)

\* C27 as the spec states it: no capture handle is opened after capture has
\* started, and what run raises after an exception of the loop body is that
\* exception.
C27_Original ==
    /\ \A i \in 1..Len(Attempts) : ~Attempts[i].reopen
    /\ (pc = "done" /\ obs.end_cause = "runtime") => out.raised = obs.body_exc

\* C28 as the spec states it: once run is over, and with it the stop() that
\* shutdown called on the main thread, no key event invokes the toggle or the
\* shutdown callback any more.
C28_Original ==
    [][pc = "done"
       => (/\ obs'.toggles = obs.toggles
           /\ obs'.shutdown_calls = obs.shutdown_calls)]_vars

\* C29: in every state 0 <= dropped <= throttled <= processed, and no step
\* (packet processing, toggle, status report, shutdown, on either thread)
\* decreases any of the three counters.
C29_CountersOrdered ==
    /\ [](/\ 0 <= stats.dropped_packets
          /\ stats.dropped_packets <= stats.throttled_packets
          /\ stats.throttled_packets <= stats.processed_packets)
    /\ [][/\ stats'.processed_packets >= stats.processed_packets
          /\ stats'.throttled_packets >= stats.throttled_packets
          /\ stats'.dropped_packets >= stats.dropped_packets]_vars

\* a run that toggled, dropped one packet, shaped another, passed a third
\* through with a drop rate that is not zero, reported and shut down
C29_Witness ==
    /\ pc = "done"
    /\ config.packet_drop_rate > 0
    /\ 1 <= stats.dropped_packets
    /\ stats.dropped_packets < stats.throttled_packets
    /\ stats.throttled_packets < stats.processed_packets
    /\ obs.toggles >= 1
    /\ out.status # {}
    /\ out.final >= 1

====
